---- MODULE Spec2Model ----
(***************************************************************************)
(* rusty-calc: the evaluation pipeline of src/src/lib.rs.                  *)
(*                                                                         *)
(*   validate_equation -> extract_numbers / extract_operators ->           *)
(*   parse::<f64> -> count checks -> pass 1 (mul, div) -> pass 2 (add, sub) *)
(*                                                                         *)
(* A string is a sequence of one-character strings.  An f64 is modelled    *)
(* by the exact rational <<numerator, denominator>> in lowest terms, so    *)
(* rounding is abstracted away; the order of the arithmetic operations is  *)
(* the order of the code.                                                  *)
(***************************************************************************)
EXTENDS Integers, Sequences, FiniteSets, TLC

VARIABLES input, trimmed, pc, idx, prev_was_digit, prev_was_operator, valid_structure,
          numbers, operators, nums, values, ops, i, result, ret

vars == <<input, trimmed, pc, idx, prev_was_digit, prev_was_operator, valid_structure,
          numbers, operators, nums, values, ops, i, result, ret>>

\* Longest input string drawn.
MaxLen == 5

----------------------------------------------------------------------------
\* Characters

AsciiDigit == {"0", "1", "2", "3", "4", "5", "6", "7", "8", "9"}

\* The digits the inputs are drawn from.
InputDigit == {"0", "2"}

OperatorChar == {"+", "-", "*", "/"}

WhitespaceChar == {" "}

\* A character that is neither digit, dot, operator nor whitespace.
OtherChar == {"a"}

Char == InputDigit \cup {"."} \cup OperatorChar \cup WhitespaceChar \cup OtherChar

Inputs == UNION {[1..n -> Char] : n \in 0..MaxLen}

is_ascii_digit(ch) == ch \in AsciiDigit

is_operator(ch) == ch \in OperatorChar

is_whitespace(ch) == ch \in WhitespaceChar

\* ch.is_ascii_digit() || ch == '.'
is_digit_or_dot(ch) == is_ascii_digit(ch) \/ ch = "."

RECURSIVE trim_start(_)
trim_start(s) ==
    IF s # <<>> /\ is_whitespace(Head(s)) THEN trim_start(Tail(s)) ELSE s

RECURSIVE trim_end(_)
trim_end(s) ==
    IF s # <<>> /\ is_whitespace(s[Len(s)])
    THEN trim_end(SubSeq(s, 1, Len(s) - 1))
    ELSE s

\* str::trim
trim(s) == trim_end(trim_start(s))

\* chars().any(|c| c.is_ascii_digit())
any_digit(s) == \E k \in 1..Len(s) : is_ascii_digit(s[k])

\* chars().any(|c| matches!(c, '+' | '-' | '*' | '/'))
any_operator(s) == \E k \in 1..Len(s) : is_operator(s[k])

----------------------------------------------------------------------------
\* f64 values as exact rationals

Abs(x) == IF x < 0 THEN -x ELSE x

RECURSIVE GCD(_, _)
GCD(a, b) == IF b = 0 THEN a ELSE GCD(b, a % b)

\* Lowest terms, positive denominator.  A zero denominator (the result of a
\* division by zero: an IEEE infinity or NaN) is kept as <<1, 0>>.
Norm(n, d) ==
    IF d = 0 THEN <<1, 0>>
    ELSE LET g == GCD(Abs(n), Abs(d))
             s == IF d < 0 THEN -1 ELSE 1
         IN  <<(s * n) \div g, (s * d) \div g>>

RAdd(a, b) == Norm(a[1] * b[2] + b[1] * a[2], a[2] * b[2])

RSub(a, b) == Norm(a[1] * b[2] - b[1] * a[2], a[2] * b[2])

RMul(a, b) == Norm(a[1] * b[1], a[2] * b[2])

RDiv(a, b) == Norm(a[1] * b[2], a[2] * b[1])

RZero == <<0, 1>>

\* x == 0.0
IsZero(x) == x[1] = 0 /\ x[2] # 0

DigitVal(ch) ==
    CASE ch = "0" -> 0 [] ch = "1" -> 1 [] ch = "2" -> 2 [] ch = "3" -> 3
      [] ch = "4" -> 4 [] ch = "5" -> 5 [] ch = "6" -> 6 [] ch = "7" -> 7
      [] ch = "8" -> 8 [] ch = "9" -> 9

RECURSIVE Pow10(_)
Pow10(n) == IF n = 0 THEN 1 ELSE 10 * Pow10(n - 1)

RECURSIVE DecimalValue(_)
DecimalValue(ds) ==
    IF ds = <<>> THEN 0
    ELSE 10 * DecimalValue(SubSeq(ds, 1, Len(ds) - 1)) + DigitVal(ds[Len(ds)])

IsDot(ch) == ch = "."

DotCount(lit) == Len(SelectSeq(lit, IsDot))

\* A mutation of parse_ok: every literal holding a digit parses.
parse_ok_lenient(lit) == any_digit(lit)

\* Whether num_str.parse::<f64>() is Ok, for a literal of digits and dots:
\* digits with at most one '.', and at least one digit ("5.", ".5" parse,
\* "." and "1.2.3" do not).
parse_ok(lit) == DotCount(lit) <= 1 /\ any_digit(lit)

\* The value num_str.parse::<f64>() yields for a literal that parses.
parse_val(lit) ==
    LET digits  == SelectSeq(lit, is_ascii_digit)
        fracLen == IF DotCount(lit) = 0 THEN 0
                   ELSE Len(lit) - (CHOOSE k \in 1..Len(lit) : lit[k] = ".")
    IN  Norm(DecimalValue(digits), Pow10(fracLen))

----------------------------------------------------------------------------
\* validate_equation

\* A mutation of has_digit_and_operator: rejects only when both are missing.
has_digit_and_operator_and(s) ==
    ~ (~ any_digit(s) /\ ~ any_operator(s))

\* The pre-check: !(!has_digit || !has_operator)
has_digit_and_operator(s) ==
    ~ (~ any_digit(s) \/ ~ any_operator(s))

\* The flags before the first character.
ScanInit ==
    [prev_was_digit |-> FALSE, prev_was_operator |-> FALSE,
     valid_structure |-> FALSE, rejected |-> FALSE]

\* A mutation of ScanStep: the operator branch has no else, so an operator
\* that does not follow a digit is skipped.
ScanStepNoElse(st, ch) ==
    IF is_digit_or_dot(ch)
    THEN [st EXCEPT !.valid_structure = st.valid_structure \/ st.prev_was_operator,
                    !.prev_was_digit = TRUE, !.prev_was_operator = FALSE]
    ELSE IF is_operator(ch)
    THEN IF st.prev_was_digit
         THEN [st EXCEPT !.prev_was_operator = TRUE, !.prev_was_digit = FALSE]
         ELSE st
    ELSE IF ~ is_whitespace(ch)
    THEN [st EXCEPT !.rejected = TRUE]
    ELSE st

\* A mutation of ScanStep: whitespace falls into the invalid-character branch.
ScanStepWsInvalid(st, ch) ==
    IF is_digit_or_dot(ch)
    THEN [st EXCEPT !.valid_structure = st.valid_structure \/ st.prev_was_operator,
                    !.prev_was_digit = TRUE, !.prev_was_operator = FALSE]
    ELSE IF is_operator(ch)
    THEN IF st.prev_was_digit
         THEN [st EXCEPT !.prev_was_operator = TRUE, !.prev_was_digit = FALSE]
         ELSE [st EXCEPT !.rejected = TRUE]
    ELSE [st EXCEPT !.rejected = TRUE]

\* A mutation of ScanStep: valid_structure is set on a digit after a digit.
ScanStepWrongFlag(st, ch) ==
    IF is_digit_or_dot(ch)
    THEN [st EXCEPT !.valid_structure = st.valid_structure \/ st.prev_was_digit,
                    !.prev_was_digit = TRUE, !.prev_was_operator = FALSE]
    ELSE IF is_operator(ch)
    THEN IF st.prev_was_digit
         THEN [st EXCEPT !.prev_was_operator = TRUE, !.prev_was_digit = FALSE]
         ELSE [st EXCEPT !.rejected = TRUE]
    ELSE IF ~ is_whitespace(ch)
    THEN [st EXCEPT !.rejected = TRUE]
    ELSE st

\* One iteration of the scan loop over trimmed.chars(); rejected stands for
\* the early `return false`.
ScanStep(st, ch) ==
    IF is_digit_or_dot(ch)
    THEN [st EXCEPT !.valid_structure = st.valid_structure \/ st.prev_was_operator,
                    !.prev_was_digit = TRUE, !.prev_was_operator = FALSE]
    ELSE IF is_operator(ch)
    THEN IF st.prev_was_digit
         THEN [st EXCEPT !.prev_was_operator = TRUE, !.prev_was_digit = FALSE]
         ELSE [st EXCEPT !.rejected = TRUE]
    ELSE IF ~ is_whitespace(ch)
    THEN [st EXCEPT !.rejected = TRUE]
    ELSE st

\* The verdict after the loop: valid_structure && prev_was_digit
ScanVerdict(st) == st.valid_structure /\ st.prev_was_digit

RECURSIVE ScanFrom(_, _, _)
ScanFrom(st, s, k) ==
    IF st.rejected \/ k > Len(s) THEN st ELSE ScanFrom(ScanStep(st, s[k]), s, k + 1)

validate_equation(s) ==
    LET t == trim(s)
    IN  IF ~ has_digit_and_operator(t) THEN FALSE
        ELSE LET st == ScanFrom(ScanInit, t, 1)
             IN  ~ st.rejected /\ ScanVerdict(st)

----------------------------------------------------------------------------
\* extract_operators, extract_numbers

extract_operators(s) == SelectSeq(s, is_operator)

\* The loop state of extract_numbers before the first character.
ExtractInit == [numbers |-> <<>>, current_number |-> <<>>]

\* A mutation of ExtractStep: the digit test reads && for ||.
ExtractStepAnd(acc, ch) ==
    IF is_ascii_digit(ch) /\ ch = "."
    THEN [acc EXCEPT !.current_number = Append(acc.current_number, ch)]
    ELSE IF acc.current_number # <<>>
    THEN [numbers |-> Append(acc.numbers, acc.current_number), current_number |-> <<>>]
    ELSE acc

\* One iteration of the loop of extract_numbers.
ExtractStep(acc, ch) ==
    IF is_digit_or_dot(ch)
    THEN [acc EXCEPT !.current_number = Append(acc.current_number, ch)]
    ELSE IF acc.current_number # <<>>
    THEN [numbers |-> Append(acc.numbers, acc.current_number), current_number |-> <<>>]
    ELSE acc

RECURSIVE ExtractFrom(_, _, _)
ExtractFrom(acc, s, k) ==
    IF k > Len(s) THEN acc ELSE ExtractFrom(ExtractStep(acc, s[k]), s, k + 1)

extract_numbers(s) ==
    LET acc == ExtractFrom(ExtractInit, s, 1)
    IN  IF acc.current_number # <<>>
        THEN Append(acc.numbers, acc.current_number)
        ELSE acc.numbers

----------------------------------------------------------------------------
\* evaluate

\* 0-based indexing, as in the code.
At(seq, k) == seq[k + 1]

InBounds(seq, k) == k >= 0 /\ k < Len(seq)

\* values.pop(): the sequence without its last entry.
Popped(seq) == SubSeq(seq, 1, Len(seq) - 1)

Last(seq) == seq[Len(seq)]

\* What evaluate returns: Ok(val), or Err(message) with the literal the
\* message names; kind "panic" stands for an abort (unwrap of None, index
\* out of bounds), kind "none" for not returned yet.
MkRet(kind, val, lit) == [kind |-> kind, val |-> val, lit |-> lit]

NotReturned == MkRet("none", RZero, <<>>)

RetOk(v) == MkRet("Ok", v, <<>>)

RetErr(msg) == MkRet(msg, RZero, <<>>)

ErrInvalidFormat == RetErr("Invalid equation format")

ErrInvalidNumber(lit) == MkRet("Invalid number", RZero, lit)

ErrNoNumbers == RetErr("No numbers found in equation")

ErrMismatch == RetErr("Mismatch between numbers and operators")

ErrDivisionByZero == RetErr("Division by zero")

ErrUnknownOperator(op) == MkRet("Unknown operator", RZero, <<op>>)

Panic == RetErr("panic")

\* The loop state of pass 1; err is NotReturned while the loop goes on.
Pass1State(vs, os, err) == [values |-> vs, ops |-> os, err |-> err]

\* A mutation of Pass1Step: '+' and '-' are applied at once to the last
\* value (one left-to-right pass, no precedence).
Pass1StepFlat(st, op, k, ns) ==
    IF op = "*"
    THEN IF st.values = <<>> \/ ~ InBounds(ns, k + 1) THEN [st EXCEPT !.err = Panic]
         ELSE [st EXCEPT !.values =
                   Append(Popped(st.values), RMul(Last(st.values), At(ns, k + 1)))]
    ELSE IF op = "/"
    THEN IF st.values = <<>> \/ ~ InBounds(ns, k + 1) THEN [st EXCEPT !.err = Panic]
         ELSE IF IsZero(At(ns, k + 1)) THEN [st EXCEPT !.err = ErrDivisionByZero]
         ELSE [st EXCEPT !.values =
                   Append(Popped(st.values), RDiv(Last(st.values), At(ns, k + 1)))]
    ELSE IF op \in {"+", "-"}
    THEN IF st.values = <<>> \/ ~ InBounds(ns, k + 1) THEN [st EXCEPT !.err = Panic]
         ELSE [st EXCEPT !.values =
                   Append(Popped(st.values),
                          IF op = "+" THEN RAdd(Last(st.values), At(ns, k + 1))
                                      ELSE RSub(Last(st.values), At(ns, k + 1)))]
    ELSE [st EXCEPT !.err = ErrUnknownOperator(op)]

\* A mutation of Pass1Step: the zero test reads the left operand.
Pass1StepZeroLeft(st, op, k, ns) ==
    IF op = "*"
    THEN IF st.values = <<>> \/ ~ InBounds(ns, k + 1) THEN [st EXCEPT !.err = Panic]
         ELSE [st EXCEPT !.values =
                   Append(Popped(st.values), RMul(Last(st.values), At(ns, k + 1)))]
    ELSE IF op = "/"
    THEN IF st.values = <<>> \/ ~ InBounds(ns, k + 1) THEN [st EXCEPT !.err = Panic]
         ELSE IF IsZero(Last(st.values)) THEN [st EXCEPT !.err = ErrDivisionByZero]
         ELSE [st EXCEPT !.values =
                   Append(Popped(st.values), RDiv(Last(st.values), At(ns, k + 1)))]
    ELSE IF op \in {"+", "-"}
    THEN IF ~ InBounds(ns, k + 1) THEN [st EXCEPT !.err = Panic]
         ELSE [st EXCEPT !.values = Append(st.values, At(ns, k + 1)),
                         !.ops = Append(st.ops, op)]
    ELSE [st EXCEPT !.err = ErrUnknownOperator(op)]

\* A mutation of Pass1Step: the '+'/'-' branch records the operator and
\* forgets to push the number.
Pass1StepNoPush(st, op, k, ns) ==
    IF op = "*"
    THEN IF st.values = <<>> \/ ~ InBounds(ns, k + 1) THEN [st EXCEPT !.err = Panic]
         ELSE [st EXCEPT !.values =
                   Append(Popped(st.values), RMul(Last(st.values), At(ns, k + 1)))]
    ELSE IF op = "/"
    THEN IF st.values = <<>> \/ ~ InBounds(ns, k + 1) THEN [st EXCEPT !.err = Panic]
         ELSE IF IsZero(At(ns, k + 1)) THEN [st EXCEPT !.err = ErrDivisionByZero]
         ELSE [st EXCEPT !.values =
                   Append(Popped(st.values), RDiv(Last(st.values), At(ns, k + 1)))]
    ELSE IF op \in {"+", "-"}
    THEN [st EXCEPT !.ops = Append(st.ops, op)]
    ELSE [st EXCEPT !.err = ErrUnknownOperator(op)]

\* One iteration of pass 1 on operator op = operators[k]: '*' and '/' fold
\* nums[k+1] into the last value, '+' and '-' push it and record the operator.
Pass1Step(st, op, k, ns) ==
    IF op = "*"
    THEN IF st.values = <<>> \/ ~ InBounds(ns, k + 1) THEN [st EXCEPT !.err = Panic]
         ELSE [st EXCEPT !.values =
                   Append(Popped(st.values), RMul(Last(st.values), At(ns, k + 1)))]
    ELSE IF op = "/"
    THEN IF st.values = <<>> \/ ~ InBounds(ns, k + 1) THEN [st EXCEPT !.err = Panic]
         ELSE IF IsZero(At(ns, k + 1)) THEN [st EXCEPT !.err = ErrDivisionByZero]
         ELSE [st EXCEPT !.values =
                   Append(Popped(st.values), RDiv(Last(st.values), At(ns, k + 1)))]
    ELSE IF op \in {"+", "-"}
    THEN IF ~ InBounds(ns, k + 1) THEN [st EXCEPT !.err = Panic]
         ELSE [st EXCEPT !.values = Append(st.values, At(ns, k + 1)),
                         !.ops = Append(st.ops, op)]
    ELSE [st EXCEPT !.err = ErrUnknownOperator(op)]

\* The loop state of pass 2.
Pass2State(r, err) == [result |-> r, err |-> err]

\* One iteration of pass 2 on op = ops[k] and values[k+1].
Pass2Step(st, op, k, vs) ==
    IF op = "+"
    THEN IF ~ InBounds(vs, k + 1) THEN [st EXCEPT !.err = Panic]
         ELSE [st EXCEPT !.result = RAdd(st.result, At(vs, k + 1))]
    ELSE IF op = "-"
    THEN IF ~ InBounds(vs, k + 1) THEN [st EXCEPT !.err = Panic]
         ELSE [st EXCEPT !.result = RSub(st.result, At(vs, k + 1))]
    ELSE [st EXCEPT !.err = ErrUnknownOperator(op)]

\* The parse loop from literal k on: the numbers parsed, or the error that
\* names the first literal that does not parse.
RECURSIVE ParseFrom(_, _, _)
ParseFrom(ns, lits, k) ==
    IF k >= Len(lits) THEN [nums |-> ns, err |-> NotReturned]
    ELSE IF parse_ok(At(lits, k))
    THEN ParseFrom(Append(ns, parse_val(At(lits, k))), lits, k + 1)
    ELSE [nums |-> ns, err |-> ErrInvalidNumber(At(lits, k))]

RECURSIVE Pass1From(_, _, _, _)
Pass1From(st, os, ns, k) ==
    IF st.err # NotReturned \/ k >= Len(os) THEN st
    ELSE Pass1From(Pass1Step(st, At(os, k), k, ns), os, ns, k + 1)

RECURSIVE Pass2From(_, _, _, _)
Pass2From(st, os, vs, k) ==
    IF st.err # NotReturned \/ k >= Len(os) THEN st
    ELSE Pass2From(Pass2Step(st, At(os, k), k, vs), os, vs, k + 1)

\* The two passes over parsed numbers and operators of matching counts.
Reduce(ns, os) ==
    LET p1 == Pass1From(Pass1State(<<At(ns, 0)>>, <<>>, NotReturned), os, ns, 0)
    IN  IF p1.err # NotReturned THEN p1.err
        ELSE IF p1.values = <<>> THEN Panic
        ELSE LET p2 == Pass2From(Pass2State(At(p1.values, 0), NotReturned),
                                 p1.ops, p1.values, 0)
             IN  IF p2.err # NotReturned THEN p2.err ELSE RetOk(p2.result)

\* evaluate as a function of its input.
evaluate(s) ==
    IF ~ validate_equation(s) THEN ErrInvalidFormat
    ELSE LET p == ParseFrom(<<>>, extract_numbers(s), 0)
             os == extract_operators(s)
         IN  IF p.err # NotReturned THEN p.err
             ELSE IF p.nums = <<>> THEN ErrNoNumbers
             ELSE IF Len(p.nums) # Len(os) + 1 THEN ErrMismatch
             ELSE Reduce(p.nums, os)

----------------------------------------------------------------------------
\* One call of evaluate(input), step by step

Init ==
    /\ input \in Inputs
    /\ trimmed = <<>>
    /\ pc = "validate"
    /\ idx = 0
    /\ prev_was_digit = FALSE
    /\ prev_was_operator = FALSE
    /\ valid_structure = FALSE
    /\ numbers = <<>>
    /\ operators = <<>>
    /\ nums = <<>>
    /\ values = <<>>
    /\ ops = <<>>
    /\ i = 0
    /\ result = RZero
    /\ ret = NotReturned

\* evaluate returns r.
Return(r) == ret' = r /\ pc' = "done"

\* validate_equation up to its pre-check; evaluate returns the format error
\* when it fails.
Precheck ==
    /\ pc = "validate"
    /\ trimmed' = trim(input)
    /\ IF has_digit_and_operator(trimmed')
       THEN pc' = "scan" /\ ret' = ret
       ELSE Return(ErrInvalidFormat)
    /\ UNCHANGED <<input, idx, prev_was_digit, prev_was_operator, valid_structure,
                   numbers, operators, nums, values, ops, i, result>>

\* One character of the scan loop; idx counts the characters scanned.
ScanChar ==
    /\ pc = "scan"
    /\ idx < Len(trimmed)
    /\ LET st == ScanStep([prev_was_digit |-> prev_was_digit,
                           prev_was_operator |-> prev_was_operator,
                           valid_structure |-> valid_structure,
                           rejected |-> FALSE], At(trimmed, idx))
       IN  /\ idx' = idx + 1
           /\ prev_was_digit' = st.prev_was_digit
           /\ prev_was_operator' = st.prev_was_operator
           /\ valid_structure' = st.valid_structure
           /\ IF st.rejected THEN Return(ErrInvalidFormat) ELSE UNCHANGED <<pc, ret>>
    /\ UNCHANGED <<input, trimmed, numbers, operators, nums, values, ops, i, result>>

\* The end of the scan: the verdict of validate_equation.
ScanEnd ==
    /\ pc = "scan"
    /\ idx = Len(trimmed)
    /\ IF ScanVerdict([prev_was_digit |-> prev_was_digit,
                       prev_was_operator |-> prev_was_operator,
                       valid_structure |-> valid_structure,
                       rejected |-> FALSE])
       THEN pc' = "extract" /\ ret' = ret
       ELSE Return(ErrInvalidFormat)
    /\ UNCHANGED <<input, trimmed, idx, prev_was_digit, prev_was_operator, valid_structure,
                   numbers, operators, nums, values, ops, i, result>>

\* The two extractions, from the untrimmed input.
Extract ==
    /\ pc = "extract"
    /\ numbers' = extract_numbers(input)
    /\ operators' = extract_operators(input)
    /\ i' = 0
    /\ pc' = "parse"
    /\ UNCHANGED <<input, trimmed, idx, prev_was_digit, prev_was_operator, valid_structure,
                   nums, values, ops, result, ret>>

\* One literal of the parse loop.
ParseNumber ==
    /\ pc = "parse"
    /\ i < Len(numbers)
    /\ IF parse_ok(At(numbers, i))
       THEN /\ nums' = Append(nums, parse_val(At(numbers, i)))
            /\ i' = i + 1
            /\ UNCHANGED <<pc, ret>>
       ELSE /\ Return(ErrInvalidNumber(At(numbers, i)))
            /\ UNCHANGED <<nums, i>>
    /\ UNCHANGED <<input, trimmed, idx, prev_was_digit, prev_was_operator, valid_structure,
                   numbers, operators, values, ops, result>>

\* The emptiness and count checks, then the seeding of pass 1.
CheckCounts ==
    /\ pc = "parse"
    /\ i = Len(numbers)
    /\ IF nums = <<>>
       THEN Return(ErrNoNumbers) /\ UNCHANGED <<values, ops, i>>
       ELSE IF Len(nums) # Len(operators) + 1
       THEN Return(ErrMismatch) /\ UNCHANGED <<values, ops, i>>
       ELSE /\ values' = <<At(nums, 0)>>
            /\ ops' = <<>>
            /\ i' = 0
            /\ pc' = "pass1"
            /\ ret' = ret
    /\ UNCHANGED <<input, trimmed, idx, prev_was_digit, prev_was_operator, valid_structure,
                   numbers, operators, nums, result>>

\* One operator of pass 1.
Pass1 ==
    /\ pc = "pass1"
    /\ i < Len(operators)
    /\ LET st == Pass1Step(Pass1State(values, ops, NotReturned),
                           At(operators, i), i, nums)
       IN  /\ values' = st.values
           /\ ops' = st.ops
           /\ IF st.err # NotReturned
              THEN Return(st.err) /\ i' = i
              ELSE i' = i + 1 /\ UNCHANGED <<pc, ret>>
    /\ UNCHANGED <<input, trimmed, idx, prev_was_digit, prev_was_operator, valid_structure,
                   numbers, operators, nums, result>>

\* The end of pass 1: result = values[0].
Pass1End ==
    /\ pc = "pass1"
    /\ i = Len(operators)
    /\ IF values = <<>>
       THEN Return(Panic) /\ UNCHANGED <<result, i>>
       ELSE /\ result' = At(values, 0)
            /\ i' = 0
            /\ pc' = "pass2"
            /\ ret' = ret
    /\ UNCHANGED <<input, trimmed, idx, prev_was_digit, prev_was_operator, valid_structure,
                   numbers, operators, nums, values, ops>>

\* One pending operator of pass 2.
Pass2 ==
    /\ pc = "pass2"
    /\ i < Len(ops)
    /\ LET st == Pass2Step(Pass2State(result, NotReturned), At(ops, i), i, values)
       IN  /\ result' = st.result
           /\ IF st.err # NotReturned
              THEN Return(st.err) /\ i' = i
              ELSE i' = i + 1 /\ UNCHANGED <<pc, ret>>
    /\ UNCHANGED <<input, trimmed, idx, prev_was_digit, prev_was_operator, valid_structure,
                   numbers, operators, nums, values, ops>>

\* Ok(result)
ReturnOk ==
    /\ pc = "pass2"
    /\ i = Len(ops)
    /\ Return(RetOk(result))
    /\ UNCHANGED <<input, trimmed, idx, prev_was_digit, prev_was_operator, valid_structure,
                   numbers, operators, nums, values, ops, i, result>>

Next ==
    \/ Precheck
    \/ ScanChar
    \/ ScanEnd
    \/ Extract
    \/ ParseNumber
    \/ CheckCounts
    \/ Pass1
    \/ Pass1End
    \/ Pass2
    \/ ReturnOk

Spec == Init /\ [][Next]_vars

\* The step-by-step run returns what the function returns.
RunAgreesWithFunction == pc = "done" => ret = evaluate(input)

----------------------------------------------------------------------------
\* Vocabulary of the properties, defined on strings without the code above

\* s without its whitespace characters.
IsNotWhitespace(ch) == ch \notin WhitespaceChar

RemoveWs(s) == SelectSeq(s, IsNotWhitespace)

HasWs(s) == \E k \in 1..Len(s) : s[k] \in WhitespaceChar

AllWs(s, a, b) == \A k \in a..b : s[k] \in WhitespaceChar

\* The significant (non-whitespace) characters of s, in order.
FirstSignificant(s) == Head(RemoveWs(s))

LastSignificant(s) == Last(RemoveWs(s))

\* Operators at j < k with nothing but whitespace between them.
OperatorPair(s, j, k) ==
    /\ j < k
    /\ s[j] \in OperatorChar
    /\ s[k] \in OperatorChar
    /\ AllWs(s, j + 1, k - 1)

HasConsecutiveOperators(s) ==
    \E j \in 1..Len(s) : \E k \in 1..Len(s) : OperatorPair(s, j, k)

\* The position (1-based) of the second operator of the first such pair.
SecondOperatorPos(s) ==
    CHOOSE k \in 1..Len(s) :
        /\ \E j \in 1..Len(s) : OperatorPair(s, j, k)
        /\ \A m \in 1..(k - 1) : ~ \E j \in 1..Len(s) : OperatorPair(s, j, m)

\* Whitespace sits only at the start, at the end, or in a run that touches
\* an operator character.
WsOnlyAtEdgesOrOperators(s) ==
    \A k \in 1..Len(s) :
        s[k] \in WhitespaceChar =>
            \/ AllWs(s, 1, k)
            \/ AllWs(s, k, Len(s))
            \/ \E j \in 1..(k - 1) : s[j] \in OperatorChar /\ AllWs(s, j + 1, k)
            \/ \E j \in (k + 1)..Len(s) : s[j] \in OperatorChar /\ AllWs(s, k, j - 1)

\* No whitespace between two digit-or-dot characters.
NoWsInsideLiteral(s) ==
    ~ \E j \in 1..Len(s) : \E k \in 1..Len(s) :
        /\ j + 1 < k
        /\ (s[j] \in AsciiDigit \/ s[j] = ".")
        /\ (s[k] \in AsciiDigit \/ s[k] = ".")
        /\ AllWs(s, j + 1, k - 1)

\* c is n0 op1 n1 ... opk nk (k >= 1) with every ni a run of digits.
IsIntegerEquation(c) ==
    /\ c # <<>>
    /\ \A k \in 1..Len(c) : c[k] \in AsciiDigit \cup OperatorChar
    /\ \E k \in 1..Len(c) : c[k] \in OperatorChar
    /\ c[1] \in AsciiDigit
    /\ c[Len(c)] \in AsciiDigit
    /\ \A k \in 1..(Len(c) - 1) : ~ (c[k] \in OperatorChar /\ c[k + 1] \in OperatorChar)

\* The last position of c holding a character of set S, 0 when none.
LastPosIn(c, S) ==
    IF \E k \in 1..Len(c) : c[k] \in S
    THEN CHOOSE k \in 1..Len(c) : c[k] \in S /\ \A m \in (k + 1)..Len(c) : c[m] \notin S
    ELSE 0

\* The value of a term n (('*' | '/') n)*, left to right.
RECURSIVE TermValue(_)
TermValue(c) ==
    LET k == LastPosIn(c, {"*", "/"})
    IN  IF k = 0 THEN <<DecimalValue(c), 1>>
        ELSE LET l == TermValue(SubSeq(c, 1, k - 1))
                 r == <<DecimalValue(SubSeq(c, k + 1, Len(c))), 1>>
             IN  IF c[k] = "*" THEN RMul(l, r) ELSE RDiv(l, r)

\* The value of term (('+' | '-') term)*, left to right.
RECURSIVE StandardValue(_)
StandardValue(c) ==
    LET k == LastPosIn(c, {"+", "-"})
    IN  IF k = 0 THEN TermValue(c)
        ELSE LET l == StandardValue(SubSeq(c, 1, k - 1))
                 r == TermValue(SubSeq(c, k + 1, Len(c)))
             IN  IF c[k] = "+" THEN RAdd(l, r) ELSE RSub(l, r)

\* The digit run of c that starts at position k.
RECURSIVE DigitRunFrom(_, _)
DigitRunFrom(c, k) ==
    IF k > Len(c) \/ c[k] \notin AsciiDigit THEN <<>>
    ELSE <<c[k]>> \o DigitRunFrom(c, k + 1)

\* Some '/' of the integer equation c has a zero literal to its right.
HasZeroDivisor(c) ==
    \E k \in 1..Len(c) : c[k] = "/" /\ DecimalValue(DigitRunFrom(c, k + 1)) = 0

\* '.' replaced by a digit.
DotsToDigits(s) == [k \in 1..Len(s) |-> IF s[k] = "." THEN "2" ELSE s[k]]

\* A literal no f64 is written as: more than one '.', or no digit.
IsBadLiteral(lit) == DotCount(lit) > 1 \/ \A k \in 1..Len(lit) : lit[k] \notin AsciiDigit

\* The four-state machine of the validator.
MachineStep(state, ch) ==
    IF state = "Invalid" THEN "Invalid"
    ELSE IF ch \in AsciiDigit \/ ch = "." THEN "AfterDigit"
    ELSE IF ch \in OperatorChar
    THEN (IF state = "AfterDigit" THEN "AfterOperator" ELSE "Invalid")
    ELSE IF ch \in WhitespaceChar THEN state
    ELSE "Invalid"

RECURSIVE MachineRun(_, _)
MachineRun(state, s) ==
    IF s = <<>> THEN state ELSE MachineRun(MachineStep(state, Head(s)), Tail(s))

\* validate_equation has returned true.
Accepted == pc \notin {"validate", "scan"} /\ ret # ErrInvalidFormat

\* Validation, parsing and the count check have passed.
ReachedPass1 ==
    /\ pc \in {"pass1", "pass2", "done"}
    /\ numbers # <<>>
    /\ Len(nums) = Len(numbers)
    /\ Len(nums) = Len(operators) + 1

----------------------------------------------------------------------------
\* Properties

\* C1: whenever validate_equation accepts the input, extract_numbers yields
\* one token more than extract_operators yields characters, and evaluate
\* never returns the mismatch error.
C1_CountsMatchWhenAccepted ==
    /\ Accepted => Len(extract_numbers(input)) = Len(extract_operators(input)) + 1
    /\ ret # ErrMismatch

\* C2: an accepted equation of integer literals, with no whitespace inside a
\* literal and no zero divisor, evaluates to Ok(v), v its value under
\* standard precedence (terms of products and quotients left to right, then
\* sums and differences left to right).
C2_StandardPrecedence ==
    (/\ pc = "done"
     /\ NoWsInsideLiteral(input)
     /\ IsIntegerEquation(RemoveWs(input))
     /\ ~ HasZeroDivisor(RemoveWs(input)))
        => ret = RetOk(StandardValue(RemoveWs(input)))

C2_Witness ==
    /\ pc = "done"
    /\ input = <<"2", "+", "2", "*", "2">>
    /\ ret = RetOk(<<6, 1>>)

\* C3: once validation, parsing and the count check have passed, evaluate
\* returns the division-by-zero error exactly when some operator i is '/'
\* and nums[i+1] is zero, and returns Ok in every other case.
C3_DivisionByZeroIff ==
    (pc = "done" /\ ReachedPass1) =>
        LET zeroDivisor ==
                \E k \in 0..(Len(operators) - 1) :
                    At(operators, k) = "/" /\ IsZero(At(nums, k + 1))
        IN  /\ ret = ErrDivisionByZero <=> zeroDivisor
            /\ ~ zeroDivisor => ret.kind = "Ok"

C3_Witness ==
    /\ pc = "done"
    /\ input = <<"2", "/", "0", "+", "2">>
    /\ ret = ErrDivisionByZero

\* C4: an input whose first or last significant character is an operator,
\* or that holds two operators with at most whitespace between them, is
\* rejected; the scan stops no later than at the second operator of the
\* first such pair.
C4_MisplacedOperatorRejected ==
    /\ (/\ pc = "done"
        /\ RemoveWs(input) # <<>>
        /\ \/ FirstSignificant(input) \in OperatorChar
           \/ LastSignificant(input) \in OperatorChar
           \/ HasConsecutiveOperators(input))
           => ret = ErrInvalidFormat /\ ~ validate_equation(input)
    /\ (pc = "done" /\ HasConsecutiveOperators(trimmed)) =>
           idx <= SecondOperatorPos(trimmed)

C4_Witness ==
    /\ pc = "done"
    /\ input = <<"2", "+", "+", "2", "0">>
    /\ idx = 3
    /\ ret = ErrInvalidFormat

\* C5: an input without an operator character, or without an ASCII digit,
\* is rejected by validate_equation, and evaluate returns the format error.
C5_NeedsDigitAndOperator ==
    (/\ pc = "done"
     /\ \/ \A k \in 1..Len(input) : input[k] \notin OperatorChar
        \/ \A k \in 1..Len(input) : input[k] \notin AsciiDigit)
        => ret = ErrInvalidFormat /\ ~ validate_equation(input)

C5_Witness ==
    /\ pc = "done"
    /\ input = <<".", "+", ".">>
    /\ ret = ErrInvalidFormat

C7_WhitespaceTolerance ==
    (pc = "done" /\ HasWs(input) /\ WsOnlyAtEdgesOrOperators(input)) =>
        /\ validate_equation(input) = validate_equation(RemoveWs(input))
        /\ extract_numbers(input) = extract_numbers(RemoveWs(input))
        /\ extract_operators(input) = extract_operators(RemoveWs(input))
        /\ ret = evaluate(RemoveWs(input))

C7_Witness ==
    /\ pc = "done"
    /\ input = <<" ", "2", " ", "+", "2">>
    /\ ret = RetOk(<<4, 1>>)

\* C8: the no-numbers error is unreachable: an accepted input has a
\* non-empty sequence of numbers, so when every literal has parsed the
\* emptiness check finds nums non-empty.
C8_NoNumbersUnreachable ==
    /\ ret # ErrNoNumbers
    /\ pc = "parse" => numbers # <<>>
    /\ (pc = "parse" /\ i = Len(numbers)) => nums # <<>>

C8_Witness ==
    /\ pc = "parse"
    /\ i = Len(numbers)
    /\ Len(nums) = 3

\* C9: the two flags are never both true; and for an input that passes the
\* pre-check the verdict of the flags is that of the four-state machine
\* (never Invalid, ends in AfterDigit): valid_structure follows from ending
\* on a digit.
C9_FlagsAreStateMachine ==
    /\ ~ (prev_was_digit /\ prev_was_operator)
    /\ (pc = "done" /\ has_digit_and_operator(trimmed)) =>
           (ret # ErrInvalidFormat <=> MachineRun("Start", trimmed) = "AfterDigit")
    /\ (pc = "scan" /\ idx = Len(trimmed) /\ prev_was_digit) => valid_structure

C9_Witness ==
    /\ pc = "scan"
    /\ idx = Len(trimmed)
    /\ input = <<"2", "+", "2", "-", "0">>
    /\ prev_was_digit
    /\ valid_structure
    /\ MachineRun("Start", trimmed) = "AfterDigit"

\* C10: evaluate never aborts: values is non-empty before every pop, every
\* nums[i+1] and values[i+1] is in bounds, len(values) = len(ops) + 1 after
\* pass 1, no unknown operator is met, and every call returns.
C10_NeverAborts ==
    /\ ret.kind \notin {"panic", "Unknown operator"}
    /\ pc = "pass1" => /\ values # <<>>
                       /\ Len(values) = Len(ops) + 1
                       /\ i < Len(operators) => InBounds(nums, i + 1)
    /\ pc = "pass2" => /\ Len(values) = Len(ops) + 1
                       /\ i < Len(ops) => InBounds(values, i + 1)
    /\ \A k \in 1..Len(operators) : operators[k] \in OperatorChar
    /\ \A k \in 1..Len(ops) : ops[k] \in {"+", "-"}
    /\ pc = "done" \/ ENABLED Next

C10_Witness ==
    /\ pc = "done"
    /\ ret.kind = "Ok"
    /\ Len(ops) = 1
    /\ Len(operators) = 2
    /\ Len(values) = 2

====
